---- MODULE Spec2Model ----
(***************************************************************************)
(* Model of rc-building-model: the ventilation component (rcbm/vent.py)    *)
(* and the heat-transfer component (rc_building_model/htuse.py).           *)
(*                                                                         *)
(* Numbers are exact rationals [num, den] in lowest terms with den > 0,    *)
(* extended with the three special values of the floating point numbers    *)
(* the code computes with: den = 0 and num = 1 (inf), -1 (-inf), 0 (NaN).  *)
(* A pandas Series is a record [index, values] of two sequences of the     *)
(* same length.  A call either returns a Series or raises; the outcome of  *)
(* a call is a record [err, index, values] with err = "none" on return.    *)
(***************************************************************************)
EXTENDS Integers, Sequences, FiniteSets

VARIABLES dwellings, heat_loss_coefficient, delta_t, hours, called, result, first_run

vars == <<dwellings, heat_loss_coefficient, delta_t, hours, called, result, first_run>>

-----------------------------------------------------------------------------
(* Arithmetic *)

Abs(x) == IF x < 0 THEN -x ELSE x

Sign(x) == IF x > 0 THEN 1 ELSE IF x < 0 THEN -1 ELSE 0

RECURSIVE GCD(_, _)
GCD(a, b) == IF b = 0 THEN a ELSE GCD(b, a % b)

Rat(n, d) ==
    IF d = 0 THEN [num |-> Sign(n), den |-> 0]
    ELSE LET g == GCD(Abs(n), Abs(d))
             s == Sign(d)
         IN  [num |-> (s * n) \div g, den |-> (s * d) \div g]

Int2R(n) == [num |-> n, den |-> 1]

NaN == [num |-> 0, den |-> 0]

Inf == [num |-> 1, den |-> 0]

IsNaN(a) == a.den = 0 /\ a.num = 0

IsFinite(a) == a.den > 0

Add(a, b) ==
    IF a.den = 0 \/ b.den = 0
    THEN IF IsNaN(a) \/ IsNaN(b) THEN NaN
         ELSE IF a.den = 0 /\ b.den = 0
              THEN IF a.num = b.num THEN a ELSE NaN
              ELSE IF a.den = 0 THEN a ELSE b
    ELSE LET g == GCD(a.den, b.den)
         IN  Rat(a.num * (b.den \div g) + b.num * (a.den \div g),
                 (a.den \div g) * b.den)

Neg(a) == [num |-> -a.num, den |-> a.den]

Sub(a, b) == Add(a, Neg(b))

Mul(a, b) ==
    IF a.den = 0 \/ b.den = 0
    THEN Rat(Sign(a.num) * Sign(b.num), 0)
    ELSE LET g == GCD(Abs(a.num), b.den)
             h == GCD(Abs(b.num), a.den)
         IN  Rat((a.num \div g) * (b.num \div h), (a.den \div h) * (b.den \div g))

Recip(b) ==
    IF b.den = 0 THEN (IF b.num = 0 THEN NaN ELSE Int2R(0))
    ELSE IF b.num = 0 THEN Inf
    ELSE Rat(b.den, b.num)

Div(a, b) == Mul(a, Recip(b))

Gt(a, b) ==
    IF IsNaN(a) \/ IsNaN(b) THEN FALSE
    ELSE IF a.den = 0 /\ b.den = 0 THEN a.num > b.num
    ELSE a.num * b.den > b.num * a.den

Maximum(a, b) ==
    IF IsNaN(a) \/ IsNaN(b) THEN NaN
    ELSE IF Gt(b, a) THEN b ELSE a

\* numpy's round: to the nearest integer, a tie to the even one.
Round(a) ==
    IF a.den = 0 THEN a
    ELSE LET fl == a.num \div a.den
             twice == 2 * (a.num - fl * a.den)
         IN  IF twice < a.den THEN Int2R(fl)
             ELSE IF twice > a.den THEN Int2R(fl + 1)
             ELSE IF fl % 2 = 0 THEN Int2R(fl) ELSE Int2R(fl + 1)

-----------------------------------------------------------------------------
(* Series and outcomes *)

Returned(index, values) == [err |-> "none", index |-> index, values |-> values]

Raised(e) == [err |-> e, index |-> <<>>, values |-> <<>>]

\* The column f of the dwelling table, as a Series on the table's index.
Column(table, f) ==
    Returned([k \in 1..Len(table) |-> table[k].label],
             [k \in 1..Len(table) |-> table[k][f]])

RangeIndex(n) == [k \in 1..n |-> k - 1]

Positions(s, l) == {k \in 1..Len(s.index) : s.index[k] = l}

\* The value a label-aligned operation reads for label l: NaN if the label
\* is missing.  Used for unique labels only.
ValueAt(s, l) ==
    IF Positions(s, l) = {} THEN NaN
    ELSE s.values[CHOOSE k \in Positions(s, l) : TRUE]

RECURSIVE SortedSeq(_)
SortedSeq(S) ==
    IF S = {} THEN <<>>
    ELSE LET m == CHOOSE x \in S : \A y \in S : x <= y
         IN  <<m>> \o SortedSeq(S \ {m})

Range(f) == {f[k] : k \in DOMAIN f}

\* The arithmetic operators of Series.
Binary(op, x, y) ==
    CASE op = "+" -> Add(x, y)
      [] op = "*" -> Mul(x, y)
      [] op = "/" -> Div(x, y)

\* A pandas binary operation on two Series: positional when the two indexes
\* are identical, otherwise aligned on the union of the labels (both indexes
\* with unique labels), a label missing from one side giving NaN.  An
\* operand that raised propagates, the left one first.
SeriesOp(op, a, b) ==
    IF a.err # "none" THEN a
    ELSE IF b.err # "none" THEN b
    ELSE IF a.index = b.index
    THEN Returned(a.index,
                  [k \in 1..Len(a.index) |-> Binary(op, a.values[k], b.values[k])])
    ELSE LET union == SortedSeq(Range(a.index) \cup Range(b.index))
         IN  Returned(union,
                 [k \in 1..Len(union) |->
                     Binary(op, ValueAt(a, union[k]), ValueAt(b, union[k]))])

\* An elementwise operation on one Series: the same index, new values.
Elementwise(a, values) ==
    IF a.err # "none" THEN a ELSE Returned(a.index, values)

-----------------------------------------------------------------------------
(* rcbm/vent.py: infiltration *)

\* decimal.DivisionByZero is raised if any dwelling's volume equals zero.
_calculate_infiltration_rate_due_to_opening(no_openings, building_volume, ventilation_rate) ==
    IF \E k \in 1..Len(building_volume.values) : building_volume.values[k] = Int2R(0)
    THEN Raised("DivisionByZero")
    ELSE SeriesOp("/",
                  Elementwise(no_openings,
                      [k \in 1..Len(no_openings.values) |->
                          Mul(no_openings.values[k], Int2R(ventilation_rate))]),
                  building_volume)

ChimneyVentilationRate == 40

OpenFlueVentilationRate == 20

FanVentilationRate == 10

RoomHeaterVentilationRate == 40

calculate_infiltration_rate_due_to_chimneys(no_chimneys, building_volume) ==
    _calculate_infiltration_rate_due_to_opening(no_chimneys, building_volume,
                                                ChimneyVentilationRate)

calculate_infiltration_rate_due_to_open_flues(no_chimneys, building_volume) ==
    _calculate_infiltration_rate_due_to_opening(no_chimneys, building_volume,
                                                OpenFlueVentilationRate)

calculate_infiltration_rate_due_to_fans(no_chimneys, building_volume) ==
    _calculate_infiltration_rate_due_to_opening(no_chimneys, building_volume,
                                                FanVentilationRate)

calculate_infiltration_rate_due_to_room_heaters(no_chimneys, building_volume) ==
    _calculate_infiltration_rate_due_to_opening(no_chimneys, building_volume,
                                                RoomHeaterVentilationRate)

\* Series.map(dict): a value that is no key of the dict becomes NaN.  The
\* Python booleans are written "True" and "False", the missing value "nan".
yes_or_no_map(v) ==
    IF v = "YES" THEN "True" ELSE IF v = "NO" THEN "False" ELSE "nan"

draught_lobby_map(b) ==
    IF b = "True" THEN Int2R(0) ELSE IF b = "False" THEN Rat(5, 100) ELSE NaN

calculate_infiltration_rate_due_to_draught_lobby(is_draught_lobby) ==
    Elementwise(is_draught_lobby,
        [k \in 1..Len(is_draught_lobby.values) |->
            draught_lobby_map(yes_or_no_map(is_draught_lobby.values[k]))])

calculate_infiltration_rate_due_to_openings(building_volume, no_chimneys, no_open_flues, no_fans, no_room_heaters, is_draught_lobby) ==
    SeriesOp("+",
      SeriesOp("+",
        SeriesOp("+",
          SeriesOp("+",
            calculate_infiltration_rate_due_to_chimneys(no_chimneys, building_volume),
            calculate_infiltration_rate_due_to_open_flues(no_open_flues, building_volume)),
          calculate_infiltration_rate_due_to_fans(no_fans, building_volume)),
        calculate_infiltration_rate_due_to_room_heaters(no_room_heaters, building_volume)),
      calculate_infiltration_rate_due_to_draught_lobby(is_draught_lobby))

calculate_infiltration_rate_due_to_height(no_storeys) ==
    Elementwise(no_storeys,
        [k \in 1..Len(no_storeys.values) |->
            Mul(Sub(no_storeys.values[k], Int2R(1)), Rat(1, 10))])

acceptable_structure_types == {"unknown", "masonry", "timber_or_steel", "concrete"}

structure_infiltration_rate_map(t) ==
    CASE t = "unknown" -> Rat(35, 100)
      [] t = "masonry" -> Rat(35, 100)
      [] t = "timber_or_steel" -> Rat(25, 100)
      [] t = "concrete" -> Int2R(0)
      [] OTHER -> NaN

calculate_infiltration_rate_due_to_structure_type(structure_type) ==
    IF \E k \in 1..Len(structure_type.values) :
           structure_type.values[k] \notin acceptable_structure_types
    THEN Raised("ValueError")
    ELSE Elementwise(structure_type,
             [k \in 1..Len(structure_type.values) |->
                 structure_infiltration_rate_map(structure_type.values[k])])

acceptable_suspended_floor_types == {"none", "sealed", "unsealed"}

floor_infiltration_rate_map(t) ==
    CASE t = "none" -> Int2R(0)
      [] t = "sealed" -> Rat(1, 10)
      [] t = "unsealed" -> Rat(2, 10)
      [] OTHER -> NaN

calculate_infiltration_rate_due_to_suspended_floor(is_floor_suspended) ==
    IF \E k \in 1..Len(is_floor_suspended.values) :
           is_floor_suspended.values[k] \notin acceptable_suspended_floor_types
    THEN Raised("ValueError")
    ELSE Elementwise(is_floor_suspended,
             [k \in 1..Len(is_floor_suspended.values) |->
                 floor_infiltration_rate_map(is_floor_suspended.values[k])])

calculate_infiltration_rate_due_to_draught(percentage_draught_stripped) ==
    Elementwise(percentage_draught_stripped,
        [k \in 1..Len(percentage_draught_stripped.values) |->
            Sub(Rat(25, 100),
                Mul(Rat(2, 10), Div(percentage_draught_stripped.values[k], Int2R(100))))])

\* Mutant of np_where_series: the test result is taken when it is >= 0.
np_where_series_from_zero(permeability_test_result, theoretical_infiltration_rate) ==
    IF theoretical_infiltration_rate.err # "none" THEN theoretical_infiltration_rate
    ELSE Returned(RangeIndex(Len(permeability_test_result.values)),
             [k \in 1..Len(permeability_test_result.values) |->
                 IF ~Gt(Int2R(0), permeability_test_result.values[k])
                 THEN permeability_test_result.values[k]
                 ELSE theoretical_infiltration_rate.values[k]])

\* np.where picks by position and pd.Series(...) gives the result a new
\* RangeIndex 0..n-1 in place of the input's index.
np_where_series(permeability_test_result, theoretical_infiltration_rate) ==
    IF theoretical_infiltration_rate.err # "none" THEN theoretical_infiltration_rate
    ELSE Returned(RangeIndex(Len(permeability_test_result.values)),
             [k \in 1..Len(permeability_test_result.values) |->
                 IF Gt(permeability_test_result.values[k], Int2R(0))
                 THEN permeability_test_result.values[k]
                 ELSE theoretical_infiltration_rate.values[k]])

calculate_infiltration_rate_due_to_structure(permeability_test_result, no_storeys, percentage_draught_stripped, is_floor_suspended, structure_type) ==
    np_where_series(permeability_test_result,
        SeriesOp("+",
          SeriesOp("+",
            SeriesOp("+",
              calculate_infiltration_rate_due_to_height(no_storeys),
              calculate_infiltration_rate_due_to_structure_type(structure_type)),
            calculate_infiltration_rate_due_to_suspended_floor(is_floor_suspended)),
          calculate_infiltration_rate_due_to_draught(percentage_draught_stripped)))

calculate_infiltration_rate_adjustment_factor(infiltration_rate, no_sides_sheltered) ==
    SeriesOp("*", infiltration_rate,
             Elementwise(no_sides_sheltered,
                 [k \in 1..Len(no_sides_sheltered.values) |->
                     Sub(Int2R(1), Mul(no_sides_sheltered.values[k], Rat(75, 1000)))]))

calculate_infiltration_rate(no_sides_sheltered, building_volume, no_chimneys, no_open_flues, no_fans, no_room_heaters, is_draught_lobby, permeability_test_result, no_storeys, percentage_draught_stripped, is_floor_suspended, structure_type) ==
    LET infiltration_rate_due_to_openings ==
            calculate_infiltration_rate_due_to_openings(building_volume, no_chimneys,
                no_open_flues, no_fans, no_room_heaters, is_draught_lobby)
        infiltration_rate_due_to_structure ==
            calculate_infiltration_rate_due_to_structure(permeability_test_result,
                no_storeys, percentage_draught_stripped, is_floor_suspended,
                structure_type)
    IN  calculate_infiltration_rate_adjustment_factor(
            SeriesOp("+", infiltration_rate_due_to_openings,
                          infiltration_rate_due_to_structure),
            no_sides_sheltered)

-----------------------------------------------------------------------------
(* rcbm/vent.py: effective air rate change *)

\* Mutant of _calculate_natural_ventilation_air_rate_change: the branch is
\* chosen once for the whole group, by whether any of its rates is > 1.
_calculate_natural_ventilation_air_rate_change_any(infiltration_rate) ==
    Elementwise(infiltration_rate,
        [k \in 1..Len(infiltration_rate.values) |->
            IF \E j \in 1..Len(infiltration_rate.values) :
                   Gt(infiltration_rate.values[j], Int2R(1))
            THEN infiltration_rate.values[k]
            ELSE Add(Rat(1, 2),
                     Mul(Mul(infiltration_rate.values[k], infiltration_rate.values[k]),
                         Rat(1, 2)))])

\* infiltration_rate.where(infiltration_rate > 1, 0.5 + infiltration_rate ** 2 * 0.5)
_calculate_natural_ventilation_air_rate_change(infiltration_rate) ==
    Elementwise(infiltration_rate,
        [k \in 1..Len(infiltration_rate.values) |->
            IF Gt(infiltration_rate.values[k], Int2R(1))
            THEN infiltration_rate.values[k]
            ELSE Add(Rat(1, 2),
                     Mul(Mul(infiltration_rate.values[k], infiltration_rate.values[k]),
                         Rat(1, 2)))])

_calculate_loft_ventilation_air_rate_change(infiltration_rate, building_volume) ==
    SeriesOp("+",
             _calculate_natural_ventilation_air_rate_change(infiltration_rate),
             Elementwise(building_volume,
                 [k \in 1..Len(building_volume.values) |->
                     Div(Int2R(20), building_volume.values[k])]))

_calculate_outside_ventilation_air_rate_change(infiltration_rate) ==
    Elementwise(infiltration_rate,
        [k \in 1..Len(infiltration_rate.values) |->
            Maximum(Rat(1, 2), Add(infiltration_rate.values[k], Rat(25, 100)))])

_calculate_mech_ventilation_air_rate_change(infiltration_rate) ==
    Elementwise(infiltration_rate,
        [k \in 1..Len(infiltration_rate.values) |->
            Add(infiltration_rate.values[k], Rat(1, 2))])

\* Mutant of _calculate_heat_recovery_ventilation_air_rate_change: the
\* recovered share is added instead of the share that is lost.
_calculate_heat_recovery_ventilation_air_rate_change_recovered(infiltration_rate, heat_exchanger_efficiency) ==
    SeriesOp("+", infiltration_rate,
             Elementwise(heat_exchanger_efficiency,
                 [k \in 1..Len(heat_exchanger_efficiency.values) |->
                     Mul(Rat(1, 2), Div(heat_exchanger_efficiency.values[k], Int2R(100)))]))

_calculate_heat_recovery_ventilation_air_rate_change(infiltration_rate, heat_exchanger_efficiency) ==
    SeriesOp("+", infiltration_rate,
             Elementwise(heat_exchanger_efficiency,
                 [k \in 1..Len(heat_exchanger_efficiency.values) |->
                     Mul(Rat(1, 2),
                         Sub(Int2R(1),
                             Div(heat_exchanger_efficiency.values[k], Int2R(100))))]))

acceptable_ventilation_methods ==
    {"positive_input_ventilation_from_loft",
     "natural_ventilation",
     "mechanical_ventilation_no_heat_recovery",
     "mechanical_ventilation_heat_recovery",
     "positive_input_ventilation_from_outside"}

\* Mutant of BooleanMask: only the first matching row is kept.
BooleanMaskFirstOnly(series, ventilation_method, method) ==
    LET match == {k \in 1..Len(ventilation_method.values) :
                     ventilation_method.values[k] = method}
        keep == IF match = {} THEN <<>>
                ELSE <<CHOOSE k \in match : \A j \in match : k <= j>>
    IN  Returned([j \in 1..Len(keep) |-> series.index[keep[j]]],
                 [j \in 1..Len(keep) |-> series.values[keep[j]]])

\* series[ventilation_method == method]: the rows of the series at the
\* positions where the method matches, in their order, with their labels.
BooleanMask(series, ventilation_method, method) ==
    LET keep == SortedSeq({k \in 1..Len(ventilation_method.values) :
                              ventilation_method.values[k] = method})
    IN  Returned([j \in 1..Len(keep) |-> series.index[keep[j]]],
                 [j \in 1..Len(keep) |-> series.values[keep[j]]])

RECURSIVE concat(_)
concat(list) ==
    IF list = <<>> THEN Returned(<<>>, <<>>)
    ELSE LET rest == concat(Tail(list))
         IN  Returned(list[1].index \o rest.index, list[1].values \o rest.values)

IsMonotonicIncreasing(index) ==
    \A k \in 1..(Len(index) - 1) : index[k] <= index[k + 1]

\* The orders in which a sort by label can put the positions S: the next
\* position is one of those with the least label.
RECURSIVE SortedOrders(_, _)
SortedOrders(index, S) ==
    IF S = {} THEN {<<>>}
    ELSE UNION {{<<m>> \o rest : rest \in SortedOrders(index, S \ {m})} :
                   m \in {k \in S : \A j \in S : index[k] <= index[j]}}

\* Series.sort_index(): an index that is already non-decreasing is returned
\* as it is; otherwise the rows are ordered by label with the default
\* quicksort, which fixes no order among rows with equal labels.
sort_index(series) ==
    IF IsMonotonicIncreasing(series.index) THEN {series}
    ELSE {Returned([k \in 1..Len(p) |-> series.index[p[k]]],
                   [k \in 1..Len(p) |-> series.values[p[k]]]) :
             p \in SortedOrders(series.index, 1..Len(series.index))}

\* The set of the outcomes of a call.
calculate_effective_air_rate_change(ventilation_method, building_volume, infiltration_rate, heat_exchanger_efficiency) ==
    IF \E k \in 1..Len(ventilation_method.values) :
           ventilation_method.values[k] \notin acceptable_ventilation_methods
    THEN {Raised("ValueError")}
    ELSE LET natural == _calculate_natural_ventilation_air_rate_change(
                 BooleanMask(infiltration_rate, ventilation_method,
                             "natural_ventilation"))
             loft == _calculate_loft_ventilation_air_rate_change(
                 BooleanMask(infiltration_rate, ventilation_method,
                             "positive_input_ventilation_from_loft"),
                 BooleanMask(building_volume, ventilation_method,
                             "positive_input_ventilation_from_loft"))
             outside == _calculate_outside_ventilation_air_rate_change(
                 BooleanMask(infiltration_rate, ventilation_method,
                             "positive_input_ventilation_from_outside"))
             mechanical == _calculate_mech_ventilation_air_rate_change(
                 BooleanMask(infiltration_rate, ventilation_method,
                             "mechanical_ventilation_no_heat_recovery"))
             heat_recovery == _calculate_heat_recovery_ventilation_air_rate_change(
                 BooleanMask(infiltration_rate, ventilation_method,
                             "mechanical_ventilation_heat_recovery"),
                 BooleanMask(heat_exchanger_efficiency, ventilation_method,
                             "mechanical_ventilation_heat_recovery"))
         IN  sort_index(concat(<<natural, loft, outside, mechanical, heat_recovery>>))

-----------------------------------------------------------------------------
(* rc_building_model/htuse.py *)

months == <<"jan", "feb", "mar", "apr", "may", "jun",
            "jul", "aug", "sep", "oct", "nov", "dec">>

heating_months == <<"jan", "feb", "mar", "apr", "may", "oct", "nov", "dec">>

\* The monthly reference series, in hundredths of a degree and in hours.
ADJUSTED_MONTHLY_INTERNAL_TEMPERATURE ==
    <<1772, 1773, 1785, 1795, 1815, 1835, 1850, 1848, 1833, 1811, 1788, 1777>>

MEAN_MONTHLY_EXTERNAL_TEMPERATURE ==
    <<530, 550, 700, 830, 1100, 1350, 1550, 1520, 1330, 1040, 750, 600>>

DELTA_T_BY_MONTH ==
    [m \in 1..12 |-> Rat(ADJUSTED_MONTHLY_INTERNAL_TEMPERATURE[m]
                         - MEAN_MONTHLY_EXTERNAL_TEMPERATURE[m], 100)]

DAYS_PER_MONTH == <<31, 28, 31, 30, 31, 30, 31, 31, 30, 31, 30, 31>>

HOURS_PER_MONTH == [m \in 1..12 |-> Int2R(DAYS_PER_MONTH[m] * 24)]

\* np.tile(a, n): the whole of a, n times over.
np_tile(a, n) == [j \in 1..(Len(a) * n) |-> a[((j - 1) % Len(a)) + 1]]

\* Mutant of np_repeat: the elements are tiled instead of repeated.
np_repeat_tiled(a, n) == [j \in 1..(Len(a) * n) |-> a[((j - 1) % Len(a)) + 1]]

\* np.repeat(a, n): each element of a, n times in a row.
np_repeat(a, n) == [j \in 1..(Len(a) * n) |-> a[((j - 1) \div n) + 1]]

_calculate_heat_loss_kwh(coefficient, dt, hrs) ==
    LET broadcasted_delta_t == np_tile(dt, Len(coefficient))
        broadcasted_hours_per_month == np_tile(hrs, Len(coefficient))
        broadcasted_heat_loss_coefficient == np_repeat(coefficient, Len(hrs))
    IN  [j \in 1..Len(broadcasted_heat_loss_coefficient) |->
            Mul(Mul(Mul(broadcasted_heat_loss_coefficient[j], broadcasted_delta_t[j]),
                    Rat(1, 1000)),
                broadcasted_hours_per_month[j])]

\* series.loc[labels] on an index with repeated labels: for each label of
\* the list in turn, the rows with that label in their order.
RECURSIVE loc(_, _)
loc(series, labels) ==
    IF labels = <<>> THEN Returned(<<>>, <<>>)
    ELSE LET keep == SortedSeq(Positions(series, labels[1]))
             rest == loc(series, Tail(labels))
         IN  Returned([j \in 1..Len(keep) |-> series.index[keep[j]]] \o rest.index,
                      [j \in 1..Len(keep) |-> series.values[keep[j]]] \o rest.values)

\* reset_index().groupby("index").cumcount(): for each row the number of
\* earlier rows with the same label.
cumcount(index) ==
    [k \in 1..Len(index) |-> Cardinality({j \in 1..(k - 1) : index[j] = index[k]})]

RECURSIVE SumSeq(_)
SumSeq(s) == IF s = <<>> THEN Int2R(0) ELSE Add(s[1], SumSeq(Tail(s)))

\* series.sum(level=0): one row for each label, the labels in ascending
\* order, holding the sum of the rows with that label.
sum_level(series) ==
    LET labels == SortedSeq(Range(series.index))
    IN  Returned(labels,
            [g \in 1..Len(labels) |->
                LET keep == SortedSeq(Positions(series, labels[g]))
                IN  SumSeq([j \in 1..Len(keep) |-> series.values[keep[j]]])])

calculate_heat_loss_per_year(coefficient, dt, hrs) ==
    LET heat_loss_kwh == _calculate_heat_loss_kwh(coefficient, dt, hrs)
        heat_loss_kwh_for_heating_months ==
            loc(Returned(np_tile(months, Len(coefficient)), heat_loss_kwh),
                heating_months)
        new_index == cumcount(heat_loss_kwh_for_heating_months.index)
        summed == sum_level(Returned(new_index, heat_loss_kwh_for_heating_months.values))
    IN  Elementwise(summed, [k \in 1..Len(summed.values) |-> Round(summed.values[k])])

-----------------------------------------------------------------------------
(* Populations *)

MaxDwellings == 2

MaxPartitionDwellings == 5

MaxHeatDwellings == 3

\* One row of the dwelling table.  The fields a specification does not vary
\* keep these values.
DefaultDwelling ==
    [label |-> 0,
     no_sides_sheltered |-> Int2R(2),
     building_volume |-> Int2R(200),
     no_chimneys |-> Int2R(1),
     no_open_flues |-> Int2R(1),
     no_fans |-> Int2R(2),
     no_room_heaters |-> Int2R(0),
     is_draught_lobby |-> "NO",
     permeability_test_result |-> Int2R(0),
     no_storeys |-> Int2R(2),
     percentage_draught_stripped |-> Int2R(50),
     is_floor_suspended |-> "none",
     structure_type |-> "masonry",
     ventilation_method |-> "natural_ventilation",
     infiltration_rate |-> Rat(4, 5),
     heat_exchanger_efficiency |-> Int2R(80)]

\* The table with the labels of index put on its rows.
WithIndex(table, index) ==
    [k \in 1..Len(table) |-> [table[k] EXCEPT !.label = index[k]]]

Tables(n, rows) == [1..n -> rows]

VentilationMethodValues == acceptable_ventilation_methods \cup {"trickle_vents"}

\* Index shapes: 0..n-1, n-1..0, first two labels exchanged, first label
\* repeated, and labels that are not 0..n-1.
IndexShapes(n) ==
    {RangeIndex(n),
     [k \in 1..n |-> n - k],
     [k \in 1..n |-> IF k = 1 THEN 1 ELSE IF k = 2 THEN 0 ELSE k - 1],
     [k \in 1..n |-> IF k = 1 THEN 0 ELSE k - 2],
     [k \in 1..n |-> 2 * k + 3]}

-----------------------------------------------------------------------------
(* calculate_effective_air_rate_change: partition and recombination *)

PartitionRows ==
    {[DefaultDwelling EXCEPT !.ventilation_method = m] : m \in acceptable_ventilation_methods}

InitPartition ==
    /\ \E n \in 1..MaxPartitionDwellings :
         \E table \in Tables(n, PartitionRows) :
           \E index \in IndexShapes(n) :
             dwellings = WithIndex(table, index)
    /\ heat_loss_coefficient = <<>>
    /\ delta_t = <<>>
    /\ hours = <<>>
    /\ called = "none"
    /\ result = Raised("none")
    /\ first_run = <<>>

CallEffectiveAirRateChange ==
    /\ called = "none"
    /\ called' = "calculate_effective_air_rate_change"
    /\ result' \in calculate_effective_air_rate_change(
                       Column(dwellings, "ventilation_method"),
                       Column(dwellings, "building_volume"),
                       Column(dwellings, "infiltration_rate"),
                       Column(dwellings, "heat_exchanger_efficiency"))
    /\ UNCHANGED <<dwellings, heat_loss_coefficient, delta_t, hours, first_run>>

NextPartition == CallEffectiveAirRateChange

SpecPartition == InitPartition /\ [][NextPartition]_vars

-----------------------------------------------------------------------------
(* calculate_effective_air_rate_change: the rates *)

\* Index shapes with unique labels.
UniqueIndexShapes(n) ==
    {RangeIndex(n), [k \in 1..n |-> n - k], [k \in 1..n |-> 2 * k + 3]}

InfiltrationRateValues == {Rat(4, 5), Int2R(1), Rat(3, 2)}

\* Pairs of a building volume and a heat exchanger efficiency.
VolumeEfficiencyValues ==
    {<<Int2R(100), Int2R(80)>>, <<Int2R(0), Int2R(0)>>, <<Int2R(-50), Int2R(80)>>}

RateRows ==
    {[DefaultDwelling EXCEPT !.ventilation_method = m,
                             !.infiltration_rate = i,
                             !.building_volume = ve[1],
                             !.heat_exchanger_efficiency = ve[2]] :
        m \in VentilationMethodValues, i \in InfiltrationRateValues,
        ve \in VolumeEfficiencyValues}

InitRate ==
    /\ \E n \in 1..MaxDwellings :
         \E table \in Tables(n, RateRows) :
           \E index \in UniqueIndexShapes(n) :
             dwellings = WithIndex(table, index)
    /\ heat_loss_coefficient = <<>>
    /\ delta_t = <<>>
    /\ hours = <<>>
    /\ called = "none"
    /\ result = Raised("none")
    /\ first_run = <<>>

NextRate == CallEffectiveAirRateChange

SpecRate == InitRate /\ [][NextRate]_vars

-----------------------------------------------------------------------------
(* calculate_effective_air_rate_change: two runs *)

BuildingVolumeValues == {Int2R(0), Int2R(100)}

HeatExchangerEfficiencyValues == {Int2R(0), Int2R(80)}

\* The values of the fields that differ between the two runs.
ChangedFieldValues ==
    [infiltration_rate |-> {Rat(4, 5), Rat(3, 2)},
     building_volume |-> BuildingVolumeValues,
     heat_exchanger_efficiency |-> HeatExchangerEfficiencyValues]

IndependenceRows ==
    {[DefaultDwelling EXCEPT !.ventilation_method = m,
                             !.infiltration_rate = i,
                             !.building_volume = ve[1],
                             !.heat_exchanger_efficiency = ve[2]] :
        m \in acceptable_ventilation_methods,
        i \in ChangedFieldValues.infiltration_rate,
        ve \in {<<Int2R(100), Int2R(80)>>, <<Int2R(0), Int2R(0)>>}}

InitIndependence ==
    /\ \E n \in 1..MaxDwellings :
         \E table \in Tables(n, IndependenceRows) :
             dwellings = WithIndex(table, RangeIndex(n))
    /\ heat_loss_coefficient = <<>>
    /\ delta_t = <<>>
    /\ hours = <<>>
    /\ called = "none"
    /\ result = Raised("none")
    /\ first_run = <<>>

\* A second run of calculate_effective_air_rate_change, on the population of
\* the first run with one dwelling's infiltration rate, building volume or
\* heat exchanger efficiency changed.  first_run keeps the first run's
\* population and outcome.
CallEffectiveAirRateChangeAgain ==
    /\ called = "calculate_effective_air_rate_change"
    /\ called' = "calculate_effective_air_rate_change_again"
    /\ first_run' = [dwellings |-> dwellings, result |-> result]
    /\ \E k \in 1..Len(dwellings) :
         \E f \in DOMAIN ChangedFieldValues :
           \E v \in ChangedFieldValues[f] \ {dwellings[k][f]} :
             dwellings' = [dwellings EXCEPT ![k][f] = v]
    /\ result' \in calculate_effective_air_rate_change(
                       Column(dwellings', "ventilation_method"),
                       Column(dwellings', "building_volume"),
                       Column(dwellings', "infiltration_rate"),
                       Column(dwellings', "heat_exchanger_efficiency"))
    /\ UNCHANGED <<heat_loss_coefficient, delta_t, hours>>

NextIndependence == CallEffectiveAirRateChange \/ CallEffectiveAirRateChangeAgain

SpecIndependence == InitIndependence /\ [][NextIndependence]_vars

-----------------------------------------------------------------------------
(* calculate_infiltration_rate_due_to_structure *)

\* Triples of a permeability test result, a number of storeys and a
\* percentage draught stripped.
TestStoreysDraughtValues ==
    {<<Int2R(-1), Int2R(1), Int2R(0)>>, <<Int2R(0), Int2R(3), Int2R(50)>>,
     <<Rat(3, 5), Int2R(1), Int2R(0)>>, <<Rat(3, 5), Int2R(3), Int2R(50)>>}

StructureRows ==
    {[DefaultDwelling EXCEPT !.permeability_test_result = tsd[1],
                             !.no_storeys = tsd[2],
                             !.percentage_draught_stripped = tsd[3],
                             !.is_floor_suspended = f,
                             !.structure_type = t] :
        tsd \in TestStoreysDraughtValues,
        f \in acceptable_suspended_floor_types,
        t \in acceptable_structure_types}

InitStructure ==
    /\ \E n \in 1..MaxDwellings :
         \E table \in Tables(n, StructureRows) :
             dwellings = WithIndex(table, RangeIndex(n))
    /\ heat_loss_coefficient = <<>>
    /\ delta_t = <<>>
    /\ hours = <<>>
    /\ called = "none"
    /\ result = Raised("none")
    /\ first_run = <<>>

CallInfiltrationRateDueToStructure ==
    /\ called = "none"
    /\ called' = "calculate_infiltration_rate_due_to_structure"
    /\ result' = calculate_infiltration_rate_due_to_structure(
                     Column(dwellings, "permeability_test_result"),
                     Column(dwellings, "no_storeys"),
                     Column(dwellings, "percentage_draught_stripped"),
                     Column(dwellings, "is_floor_suspended"),
                     Column(dwellings, "structure_type"))
    /\ UNCHANGED <<dwellings, heat_loss_coefficient, delta_t, hours, first_run>>

NextStructure == CallInfiltrationRateDueToStructure

SpecStructure == InitStructure /\ [][NextStructure]_vars

-----------------------------------------------------------------------------
(* calculate_infiltration_rate_due_to_openings *)

\* The draught lobby flag: the two strings the code looks up, the two
\* Python booleans and another string.
DraughtLobbyValues == {"YES", "NO", "True", "False", "maybe"}

OpeningsRows ==
    {[DefaultDwelling EXCEPT !.is_draught_lobby = l,
                             !.building_volume = v,
                             !.no_chimneys = c,
                             !.no_fans = c] :
        l \in DraughtLobbyValues,
        v \in {Int2R(-200), Int2R(0), Int2R(200)},
        c \in {Int2R(0), Int2R(1)}}

InitOpenings ==
    /\ \E n \in 1..MaxDwellings :
         \E table \in Tables(n, OpeningsRows) :
             dwellings = WithIndex(table, RangeIndex(n))
    /\ heat_loss_coefficient = <<>>
    /\ delta_t = <<>>
    /\ hours = <<>>
    /\ called = "none"
    /\ result = Raised("none")
    /\ first_run = <<>>

CallInfiltrationRateDueToDraughtLobby ==
    /\ called = "none"
    /\ called' = "calculate_infiltration_rate_due_to_draught_lobby"
    /\ result' = calculate_infiltration_rate_due_to_draught_lobby(
                     Column(dwellings, "is_draught_lobby"))
    /\ UNCHANGED <<dwellings, heat_loss_coefficient, delta_t, hours, first_run>>

CallInfiltrationRateDueToOpenings ==
    /\ called = "none"
    /\ called' = "calculate_infiltration_rate_due_to_openings"
    /\ result' = calculate_infiltration_rate_due_to_openings(
                     Column(dwellings, "building_volume"),
                     Column(dwellings, "no_chimneys"),
                     Column(dwellings, "no_open_flues"),
                     Column(dwellings, "no_fans"),
                     Column(dwellings, "no_room_heaters"),
                     Column(dwellings, "is_draught_lobby"))
    /\ UNCHANGED <<dwellings, heat_loss_coefficient, delta_t, hours, first_run>>

NextOpenings ==
    CallInfiltrationRateDueToDraughtLobby \/ CallInfiltrationRateDueToOpenings

SpecOpenings == InitOpenings /\ [][NextOpenings]_vars

-----------------------------------------------------------------------------
(* calculate_infiltration_rate *)

InfiltrationRows ==
    {[DefaultDwelling EXCEPT !.building_volume = v,
                             !.is_draught_lobby = l,
                             !.no_sides_sheltered = s,
                             !.permeability_test_result = p,
                             !.is_floor_suspended = f,
                             !.structure_type = t] :
        v \in {Int2R(-200), Int2R(0), Int2R(200)},
        l \in {"YES", "NO"},
        s \in {Int2R(0), Int2R(2)},
        p \in {Int2R(0), Rat(3, 5)},
        f \in {"none", "unsealed", "carpet"},
        t \in {"masonry", "concrete", "brick"}}

InitInfiltration ==
    /\ \E n \in 1..MaxDwellings :
         \E table \in Tables(n, InfiltrationRows) :
           \E index \in UniqueIndexShapes(n) :
             dwellings = WithIndex(table, index)
    /\ heat_loss_coefficient = <<>>
    /\ delta_t = <<>>
    /\ hours = <<>>
    /\ called = "none"
    /\ result = Raised("none")
    /\ first_run = <<>>

CallInfiltrationRate ==
    /\ called = "none"
    /\ called' = "calculate_infiltration_rate"
    /\ result' = calculate_infiltration_rate(
                     Column(dwellings, "no_sides_sheltered"),
                     Column(dwellings, "building_volume"),
                     Column(dwellings, "no_chimneys"),
                     Column(dwellings, "no_open_flues"),
                     Column(dwellings, "no_fans"),
                     Column(dwellings, "no_room_heaters"),
                     Column(dwellings, "is_draught_lobby"),
                     Column(dwellings, "permeability_test_result"),
                     Column(dwellings, "no_storeys"),
                     Column(dwellings, "percentage_draught_stripped"),
                     Column(dwellings, "is_floor_suspended"),
                     Column(dwellings, "structure_type"))
    /\ UNCHANGED <<dwellings, heat_loss_coefficient, delta_t, hours, first_run>>

NextInfiltration == CallInfiltrationRate

SpecInfiltration == InitInfiltration /\ [][NextInfiltration]_vars

-----------------------------------------------------------------------------
(* calculate_heat_loss_per_year *)

HeatLossCoefficientValues == {Int2R(0), Int2R(100), Int2R(250), Rat(3, 2)}

\* The default monthly series, and a pair of series in which every month
\* has another delta-T.
MonthlyValues ==
    {<<DELTA_T_BY_MONTH, HOURS_PER_MONTH>>,
     <<[m \in 1..12 |-> Int2R(m)], [m \in 1..12 |-> Int2R(1000)]>>}

InitHeat ==
    /\ dwellings = <<>>
    /\ \E n \in 1..MaxHeatDwellings :
         heat_loss_coefficient \in [1..n -> HeatLossCoefficientValues]
    /\ \E monthly \in MonthlyValues :
         /\ delta_t = monthly[1]
         /\ hours = monthly[2]
    /\ called = "none"
    /\ result = Raised("none")
    /\ first_run = <<>>

CallHeatLossPerYear ==
    /\ called = "none"
    /\ called' = "calculate_heat_loss_per_year"
    /\ result' = calculate_heat_loss_per_year(heat_loss_coefficient, delta_t, hours)
    /\ UNCHANGED <<dwellings, heat_loss_coefficient, delta_t, hours, first_run>>

NextHeat == CallHeatLossPerYear

SpecHeat == InitHeat /\ [][NextHeat]_vars

-----------------------------------------------------------------------------
(* Properties.  The expected values are written out from the statement of  *)
(* each property, apart from the operators that model the code.            *)

Labels == {dwellings[k].label : k \in 1..Len(dwellings)}

Count(seq, x) == Cardinality({k \in 1..Len(seq) : seq[k] = x})

\* The value of the only row of the outcome with label l.
RateAt(outcome, l) == outcome.values[CHOOSE k \in Positions(outcome, l) : TRUE]

ExpectedNaturalRate(i) ==
    IF Gt(i, Int2R(1)) THEN i ELSE Add(Rat(1, 2), Mul(Rat(1, 2), Mul(i, i)))

ExpectedRate(d) ==
    CASE d.ventilation_method = "natural_ventilation" ->
           ExpectedNaturalRate(d.infiltration_rate)
      [] d.ventilation_method = "positive_input_ventilation_from_loft" ->
           Add(ExpectedNaturalRate(d.infiltration_rate),
               Div(Int2R(20), d.building_volume))
      [] d.ventilation_method = "positive_input_ventilation_from_outside" ->
           LET shifted == Add(d.infiltration_rate, Rat(1, 4))
           IN  IF Gt(Rat(1, 2), shifted) THEN Rat(1, 2) ELSE shifted
      [] d.ventilation_method = "mechanical_ventilation_no_heat_recovery" ->
           Add(d.infiltration_rate, Rat(1, 2))
      [] d.ventilation_method = "mechanical_ventilation_heat_recovery" ->
           Add(d.infiltration_rate,
               Mul(Rat(1, 2), Sub(Int2R(1), Div(d.heat_exchanger_efficiency, Int2R(100)))))

ExpectedStructureTypeRate ==
    [unknown |-> Rat(35, 100), masonry |-> Rat(35, 100),
     timber_or_steel |-> Rat(25, 100), concrete |-> Int2R(0)]

ExpectedSuspendedFloorRate ==
    [none |-> Int2R(0), sealed |-> Rat(1, 10), unsealed |-> Rat(2, 10)]

ExpectedTheoreticalStructure(d) ==
    Add(Add(Add(Mul(Sub(d.no_storeys, Int2R(1)), Rat(1, 10)),
                ExpectedStructureTypeRate[d.structure_type]),
            ExpectedSuspendedFloorRate[d.is_floor_suspended]),
        Sub(Rat(1, 4), Div(Mul(Rat(1, 5), d.percentage_draught_stripped), Int2R(100))))

ExpectedStructure(d) ==
    IF Gt(d.permeability_test_result, Int2R(0)) THEN d.permeability_test_result
    ELSE ExpectedTheoreticalStructure(d)

ExpectedOpenings(d) ==
    Add(Div(Add(Add(Add(Mul(d.no_chimneys, Int2R(40)), Mul(d.no_open_flues, Int2R(20))),
                    Mul(d.no_fans, Int2R(10))),
                Mul(d.no_room_heaters, Int2R(40))),
            d.building_volume),
        IF d.is_draught_lobby = "YES" THEN Int2R(0) ELSE Rat(1, 20))

ExpectedInfiltration(d) ==
    Mul(Add(ExpectedOpenings(d), ExpectedStructure(d)),
        Sub(Int2R(1), Mul(d.no_sides_sheltered, Rat(75, 1000))))

ValidCategories(d) ==
    /\ d.structure_type \in {"unknown", "masonry", "timber_or_steel", "concrete"}
    /\ d.is_floor_suspended \in {"none", "sealed", "unsealed"}

AllMethodsAccepted ==
    \A k \in 1..Len(dwellings) :
        dwellings[k].ventilation_method \in
            {"natural_ventilation", "positive_input_ventilation_from_loft",
             "positive_input_ventilation_from_outside",
             "mechanical_ventilation_no_heat_recovery",
             "mechanical_ventilation_heat_recovery"}

\* C1: calculate_infiltration_rate raises if and only if some dwelling has
\* building_volume <= 0 or a structure type or suspended-floor type outside
\* its closed set; otherwise it returns a value.
C1_RaisesIffInvalidInput ==
    called = "calculate_infiltration_rate" =>
        (result.err # "none" <=>
            \E k \in 1..Len(dwellings) :
                \/ ~Gt(dwellings[k].building_volume, Int2R(0))
                \/ ~ValidCategories(dwellings[k]))

\* C2: calculate_infiltration_rate_due_to_structure gives each dwelling its
\* permeability test result if that is > 0 and otherwise the theoretical sum
\* (storeys-1)*0.1 + structure-type rate + suspended-floor rate
\* + (0.25 - 0.2*pct/100), dwelling by dwelling.
C2_PermeabilityOverridePerDwelling ==
    called = "calculate_infiltration_rate_due_to_structure" =>
        /\ result.err = "none"
        /\ Len(result.values) = Len(dwellings)
        /\ \A k \in 1..Len(dwellings) :
               result.values[k] = ExpectedStructure(dwellings[k])

C2_Witness ==
    /\ called = "calculate_infiltration_rate_due_to_structure"
    /\ Len(dwellings) = 2
    /\ Gt(dwellings[1].permeability_test_result, Int2R(0))
    /\ dwellings[2].permeability_test_result = Int2R(0)
    /\ dwellings[1].structure_type # dwellings[2].structure_type
    /\ result.values[1] = Rat(3, 5)
    /\ result.values[2] # Rat(3, 5)

\* C3: for accepted ventilation methods in any mix,
\* calculate_effective_air_rate_change returns a series of the input's length
\* in which every index label occurs as often as in the input: no dwelling
\* is dropped or duplicated.
C3_SameLengthAndLabels ==
    (called = "calculate_effective_air_rate_change" /\ AllMethodsAccepted) =>
        /\ result.err = "none"
        /\ Len(result.index) = Len(dwellings)
        /\ Len(result.values) = Len(dwellings)
        /\ \A l \in Labels \cup Range(result.index) :
               Count(result.index, l) = Cardinality(Positions(Column(dwellings, "label"), l))

C3_Witness ==
    /\ called = "calculate_effective_air_rate_change"
    /\ Len(dwellings) = 5
    /\ {dwellings[k].ventilation_method : k \in 1..5} = acceptable_ventilation_methods
    /\ dwellings[1].ventilation_method = "mechanical_ventilation_heat_recovery"
    /\ Len(result.index) = 5

\* C4: the series returned by calculate_effective_air_rate_change has the
\* input's index in the input's order and at each position the rate of the
\* dwelling at that position, also for an index that is not ascending or
\* has repeated labels.
C4_IndexInInputOrder ==
    (called = "calculate_effective_air_rate_change" /\ result.err = "none") =>
        /\ result.index = [k \in 1..Len(dwellings) |-> dwellings[k].label]
        /\ result.values = [k \in 1..Len(dwellings) |-> ExpectedRate(dwellings[k])]

\* C5: the rate returned for a dwelling is the formula of its own
\* ventilation method applied to its own infiltration, volume and
\* efficiency.
C5_RateOfOwnMethod ==
    called = "calculate_effective_air_rate_change" =>
        /\ result.err = "none" <=> AllMethodsAccepted
        /\ result.err = "none" =>
             \A k \in 1..Len(dwellings) :
                /\ Cardinality(Positions(result, dwellings[k].label)) = 1
                /\ RateAt(result, dwellings[k].label) = ExpectedRate(dwellings[k])

C5_Witness ==
    /\ called = "calculate_effective_air_rate_change"
    /\ result.err = "none"
    /\ Len(dwellings) = 2
    /\ dwellings[1].label > dwellings[2].label
    /\ dwellings[1].ventilation_method = "natural_ventilation"
    /\ dwellings[1].infiltration_rate = Int2R(1)
    /\ dwellings[2].ventilation_method = "mechanical_ventilation_heat_recovery"
    /\ dwellings[2].heat_exchanger_efficiency = Int2R(80)
    /\ RateAt(result, dwellings[1].label) = Int2R(1)
    /\ RateAt(result, dwellings[2].label) = Add(dwellings[2].infiltration_rate, Rat(1, 10))

HeatingMonthNumbers == {1, 2, 3, 4, 5, 10, 11, 12}

RECURSIVE SumOver(_, _)
SumOver(S, f) ==
    IF S = {} THEN Int2R(0)
    ELSE LET m == CHOOSE x \in S : TRUE
         IN  Add(f[m], SumOver(S \ {m}, f))

ExpectedHeatLoss(coefficient) ==
    Round(SumOver(HeatingMonthNumbers,
                  [m \in 1..12 |->
                      Div(Mul(Mul(coefficient, delta_t[m]), hours[m]), Int2R(1000))]))

\* C6: calculate_heat_loss_per_year returns one value for each dwelling, in
\* input order, the rounded sum over the eight heating months of
\* coefficient * delta_T * hours / 1000 of that dwelling; jun, jul, aug and
\* sep contribute nothing and a coefficient of 0 gives 0.
C6_HeatingMonthsSummedPerDwelling ==
    called = "calculate_heat_loss_per_year" =>
        /\ result.err = "none"
        /\ result.index = RangeIndex(Len(heat_loss_coefficient))
        /\ result.values =
               [k \in 1..Len(heat_loss_coefficient) |->
                   ExpectedHeatLoss(heat_loss_coefficient[k])]
        /\ \A k \in 1..Len(heat_loss_coefficient) :
               heat_loss_coefficient[k] = Int2R(0) => result.values[k] = Int2R(0)

C6_Witness ==
    /\ called = "calculate_heat_loss_per_year"
    /\ heat_loss_coefficient = <<Int2R(100), Int2R(0), Int2R(250)>>
    /\ delta_t = DELTA_T_BY_MONTH
    /\ result.values = <<Int2R(5977), Int2R(0), Int2R(14941)>>

\* C7: for a valid population and any dwelling index,
\* calculate_infiltration_rate returns a series keyed by the input index in
\* which each dwelling's value is (own openings sum + own structure value)
\* * (1 - own sheltered sides * 0.075), none of them undefined.
C7_InfiltrationKeyedByInputIndex ==
    (/\ called = "calculate_infiltration_rate"
     /\ \A k \in 1..Len(dwellings) :
           /\ Gt(dwellings[k].building_volume, Int2R(0))
           /\ ValidCategories(dwellings[k])) =>
        /\ result.err = "none"
        /\ Len(result.index) = Len(dwellings)
        /\ \A k \in 1..Len(dwellings) :
              /\ Cardinality(Positions(result, dwellings[k].label)) = 1
              /\ RateAt(result, dwellings[k].label) = ExpectedInfiltration(dwellings[k])

\* C8: when a dwelling using positive_input_ventilation_from_loft has a
\* building volume that is not positive, calculate_effective_air_rate_change
\* raises instead of returning a rate computed from 20/building_volume.
C8_NonPositiveVolumeRaises ==
    (/\ called = "calculate_effective_air_rate_change"
     /\ \E k \in 1..Len(dwellings) :
           /\ dwellings[k].ventilation_method = "positive_input_ventilation_from_loft"
           /\ ~Gt(dwellings[k].building_volume, Int2R(0))) =>
        result.err # "none"

\* C9: calculate_infiltration_rate_due_to_draught_lobby gives 0 for a lobby
\* that is present and 0.05 for one that is absent, for the flag given as
\* YES/NO and as a boolean, and raises for any other flag value; no
\* undefined value reaches the sum of the openings stage.
C9_DraughtLobbyNeverUndefined ==
    /\ called = "calculate_infiltration_rate_due_to_draught_lobby" =>
         IF \E k \in 1..Len(dwellings) :
                dwellings[k].is_draught_lobby \notin {"YES", "NO", "True", "False"}
         THEN result.err # "none"
         ELSE /\ result.err = "none"
              /\ \A k \in 1..Len(dwellings) :
                    result.values[k] =
                        IF dwellings[k].is_draught_lobby \in {"YES", "True"}
                        THEN Int2R(0) ELSE Rat(1, 20)
    /\ (called = "calculate_infiltration_rate_due_to_openings" /\ result.err = "none") =>
         \A k \in 1..Len(result.values) : ~IsNaN(result.values[k])

\* The inputs the formula of a dwelling's ventilation method reads.
UsedInputs(d) ==
    <<d.ventilation_method, d.infiltration_rate,
      IF d.ventilation_method = "positive_input_ventilation_from_loft"
      THEN d.building_volume ELSE Int2R(0),
      IF d.ventilation_method = "mechanical_ventilation_heat_recovery"
      THEN d.heat_exchanger_efficiency ELSE Int2R(0)>>

\* C10: between two runs of calculate_effective_air_rate_change that differ
\* in one dwelling's infiltration, volume or efficiency, every dwelling
\* whose method, infiltration and - for the loft method - volume and - for
\* the heat recovery method - efficiency are the same gets the same rate.
C10_UnusedInputsDoNotInfluence ==
    called = "calculate_effective_air_rate_change_again" =>
        /\ result.err = "none"
        /\ first_run.result.err = "none"
        /\ \A k \in 1..Len(dwellings) :
              UsedInputs(dwellings[k]) = UsedInputs(first_run.dwellings[k]) =>
                  RateAt(result, dwellings[k].label) =
                      RateAt(first_run.result, dwellings[k].label)

C10_Witness ==
    /\ called = "calculate_effective_air_rate_change_again"
    /\ Len(dwellings) = 2
    /\ dwellings[1].ventilation_method = "mechanical_ventilation_no_heat_recovery"
    /\ dwellings[1].heat_exchanger_efficiency # first_run.dwellings[1].heat_exchanger_efficiency
    /\ dwellings[2].ventilation_method = "positive_input_ventilation_from_loft"
    /\ RateAt(result, 0) = RateAt(first_run.result, 0)
    /\ RateAt(result, 1) = RateAt(first_run.result, 1)

====
